---- MODULE Spec2Model ----
(***************************************************************************)
(* A model of three pieces of the repository:                              *)
(*   - cue/debug.go: the debug printer (debugStr, context.str,             *)
(*     context.ref, printer.str),                                          *)
(*   - encoding/protobuf/protobuf.go: the proto Extractor (AddFile,        *)
(*     Instances, Files, getInst),                                         *)
(*   - the strings builtin package appended to that file (MinRunes,        *)
(*     MaxRunes).                                                          *)
(* Go strings that the code slices or compares by prefix are sequences of  *)
(* one-character strings; a file suffix the code only strips or appends    *)
(* as a whole (".proto", "_proto_gen.cue") is one element.                 *)
(***************************************************************************)
EXTENDS Integers, Sequences, FiniteSets, TLC

VARIABLES
    ctxs,            \* printer: the *context objects, each with its nodeRefs table
    outs,            \* printer: per context, the last render call and its result
    printerPanic,    \* printer: a render call panicked (the goroutine died)
    b,               \* protobuf: the Extractor object
    ret,             \* protobuf: the last call on the Extractor and what it returned
    extractorPanic,  \* protobuf: a call on the Extractor panicked
    calls,           \* protobuf: number of calls made after the first Instances/Files
    runes            \* strings: the last MinRunes/MaxRunes call and its result

vars == <<ctxs, outs, printerPanic, b, ret, extractorPanic, calls, runes>>

printerVars == <<ctxs, outs, printerPanic>>
extractorVars == <<b, ret, extractorPanic, calls>>
runesVars == <<runes>>

(***************************************************************************)
(* Bounds of the model.                                                    *)
(***************************************************************************)
\* longest byte string handed to MinRunes/MaxRunes
MaxStrLen == 3
\* largest rune count argument handed to MinRunes/MaxRunes
MaxN == 4
\* number of Instances/Files/late AddFile calls made on one Extractor
MaxCalls == 2

(***************************************************************************)
(* Generic sequence helpers.                                               *)
(***************************************************************************)
SeqsUpTo(S, n) == UNION {[1..k -> S] : k \in 0..n}

IsPrefix(p, s) == Len(p) <= Len(s) /\ SubSeq(s, 1, Len(p)) = p

(***************************************************************************)
(* strings.MinRunes / strings.MaxRunes                                     *)
(***************************************************************************)
\* the bytes strings are built from: 'a', and the two bytes of U+00E9
Bytes == {97, 195, 169}

IsCont(x) == x >= 128 /\ x <= 191

\* Width in bytes of the rune the []rune conversion decodes at position i:
\* an ASCII byte, a complete two-byte sequence, or one byte of invalid
\* UTF-8 (which converts to one U+FFFD).
RuneWidth(s, i) ==
    IF s[i] < 128 THEN 1
    ELSE IF s[i] >= 194 /\ s[i] <= 223 /\ i < Len(s) /\ IsCont(s[i + 1]) THEN 2
    ELSE 1

RECURSIVE RuneCountFrom(_, _)
RuneCountFrom(s, i) ==
    IF i > Len(s) THEN 0 ELSE 1 + RuneCountFrom(s, i + RuneWidth(s, i))

\* len([]rune(s))
RuneCount(s) == RuneCountFrom(s, 1)

MinRunes(s, max) == RuneCount(s) <= max

MaxRunes(s, max) == RuneCount(s) <= max

RunesInit == runes = [fn |-> "none", s |-> <<>>, n |-> 0, res |-> FALSE]

CallMinRunes ==
    /\ \E s \in SeqsUpTo(Bytes, MaxStrLen), n \in -1..MaxN :
           runes' = [fn |-> "MinRunes", s |-> s, n |-> n, res |-> MinRunes(s, n)]
    /\ UNCHANGED <<printerVars, extractorVars>>

CallMaxRunes ==
    /\ \E s \in SeqsUpTo(Bytes, MaxStrLen), n \in -1..MaxN :
           runes' = [fn |-> "MaxRunes", s |-> s, n |-> n, res |-> MaxRunes(s, n)]
    /\ UNCHANGED <<printerVars, extractorVars>>

(***************************************************************************)
(* The debug printer (cue/debug.go).                                       *)
(*                                                                         *)
(* A value is a record whose field t names its Go type.  A struct or a     *)
(* lambda is a scope; the field id is its identity (its address), which    *)
(* is what a nodeRef holds and what context.nodeRefs is keyed by.          *)
(***************************************************************************)
NilValue == [t |-> "nil"]

\* context.labelStr: the label table of the index
Labels == <<"a", "b", "k", "v", "say \"x\"">>

labelStr(f) == IF f \in DOMAIN Labels THEN Labels[f] ELSE ""

\* strconv.Itoa
Itoa(n) == ToString(n)

\* the text strconv.Quote puts between the quotes: the strings of the model
\* are printable ASCII, of which only the double quote is escaped
Escaped(str) == IF str = "say \"x\"" THEN "say \\\"x\\\"" ELSE str

\* strconv.Quote
Quote(str) == "\"" \o Escaped(str) \o "\""

\* apd.Decimal.Text, for the numbers of the model, which are integers of
\* exponent zero: both formats write the digits
Text(v, format) == Itoa(v)

\* time.Duration.String, for the durations of the model (in seconds)
DurationString(d) ==
    IF d = 0 THEN "0s"
    ELSE IF d < 60 THEN Itoa(d) \o "s"
    ELSE Itoa(d \div 60) \o "m" \o Itoa(d % 60) \o "s"

\* c.deref(v): the scopes of the model are originals, never copies
deref(v) == v

\* context.ref: the context after the call and the string returned
ref(c, v) ==
    IF deref(v) \in DOMAIN c.nodeRefs
    THEN [c |-> c, ref |-> c.nodeRefs[deref(v)]]
    ELSE [c |-> [c EXCEPT !.nodeRefs =
                    (deref(v) :> Itoa(Cardinality(DOMAIN c.nodeRefs))) @@ @],
          ref |-> Itoa(Cardinality(DOMAIN c.nodeRefs))]

\* newPrinter; nilctx: the printer was built with a nil *context
newPrinter(c, nilctx) ==
    [ctx |-> c, nilctx |-> nilctx, w |-> "", showNodeRef |-> FALSE,
     evals |-> 0, panic |-> FALSE]

\* printer.label
label(P, f) == IF P.nilctx THEN Itoa(f) ELSE labelStr(f)

\* printer.write and printer.writef; a printer that panicked writes no more
write(P, str) == IF P.panic THEN P ELSE [P EXCEPT !.w = @ \o str]

\* a nil pointer dereference, an index out of range or an explicit panic
panic(P) == [P EXCEPT !.panic = TRUE]

\* writef(pre + "<%s>" + post, p.ctx.ref(v)): ref runs first, and reads
\* c.nodeRefs through the printer's context
writeRef(P, v, pre, post) ==
    IF P.panic THEN P
    ELSE IF P.nilctx THEN panic(P)
    ELSE [P EXCEPT !.ctx = ref(P.ctx, v).c,
                   !.w = @ \o pre \o "<" \o ref(P.ctx, v).ref \o ">" \o post]

(***************************************************************************)
(* The values handed to the printer.                                       *)
(***************************************************************************)
Num(n) == [t |-> "numLit", k |-> "int", v |-> n]
Float(n) == [t |-> "numLit", k |-> "float", v |-> n]
Str(str) == [t |-> "stringLit", str |-> str]
Top == [t |-> "top"]
Basic(k) == [t |-> "basicType", k |-> k]
NodeRef(id) == [t |-> "nodeRef", node |-> id]
Arc(f, v) == [t |-> "arc", feature |-> f, v |-> v, optional |-> FALSE, attrs |-> <<>>]
OptArc(f, v, attrs) ==
    [t |-> "arc", feature |-> f, v |-> v, optional |-> TRUE, attrs |-> attrs]
Params(arcs) == [arcs |-> arcs]
Selector(x, f) == [t |-> "selectorExpr", x |-> x, feature |-> f]
Bound(k, op, v) == [t |-> "bound", k |-> k, op |-> op, value |-> v]
Binary(l, op, r) == [t |-> "binaryExpr", left |-> l, op |-> op, right |-> r]
List(len, typ, elems) ==
    [t |-> "list", len |-> len, typ |-> typ, elem |-> [arcs |-> elems]]
Yield(k, v) == [t |-> "yield", key |-> k, opt |-> TRUE, value |-> v]
Feed(fn, src) == [t |-> "feed", fn |-> fn, source |-> src]

\* lambdas with one, two and no parameters
Lambda1 ==
    [t |-> "lambdaExpr", id |-> "l1", params |-> Params(<<Arc(3, Top)>>),
     value |-> Selector(NodeRef("l1"), 3)]
Lambda2 ==
    [t |-> "lambdaExpr", id |-> "l2",
     params |-> Params(<<Arc(3, Basic("string")), Arc(4, Top)>>),
     value |-> Yield(Selector(NodeRef("l2"), 3), Selector(NodeRef("l2"), 4))]
Lambda0 ==
    [t |-> "lambdaExpr", id |-> "l0", params |-> Params(<<>>),
     value |-> Yield(Str("k"), Num(1))]

NilStruct ==
    [t |-> "structLit", id |-> "nil", isnil |-> TRUE, template |-> NilValue,
     arcs |-> <<>>, comprehensions |-> <<>>]

Struct1 ==
    [t |-> "structLit", id |-> "s1", isnil |-> FALSE, template |-> Lambda1,
     arcs |-> <<Arc(1, Num(1)),
                OptArc(5, Str("say \"x\""), <<[text |-> "@go(B)"]>>),
                Arc(2, NilStruct)>>,
     comprehensions |->
        <<[t |-> "fieldComprehension",
           clauses |-> [t |-> "guard",
                        condition |-> [t |-> "boolLit", b |-> TRUE],
                        value |-> Yield(Str("k"), NodeRef("s1"))]],
          [t |-> "fieldComprehension",
           clauses |-> Yield(Str("v"), Num(2))]>>]

\* the scopes by identity (what a nodeRef points to)
Scopes == [s1 |-> Struct1, l0 |-> Lambda0, l1 |-> Lambda1, l2 |-> Lambda2]

Expression ==
    [t |-> "callExpr",
     x |-> [t |-> "builtin", Name |-> "len"],
     args |->
        <<[t |-> "indexExpr", x |-> Selector(NodeRef("s1"), 1), index |-> Num(0)],
          [t |-> "sliceExpr", x |-> Selector(Top, 2), lo |-> NilValue,
           hi |-> [t |-> "unaryExpr", op |-> "-", x |-> Float(2)]],
          [t |-> "sliceExpr", x |-> Top, lo |-> Num(1), hi |-> NilValue],
          Selector(NodeRef("l1"), 0)>>]

Scalars ==
    [t |-> "unification",
     values |->
        <<[t |-> "disjunction",
           values |-> <<[val |-> [t |-> "nullLit"], marked |-> TRUE],
                        [val |-> [t |-> "boolLit", b |-> FALSE], marked |-> FALSE]>>],
          [t |-> "interpolation",
           parts |-> <<Str("a"), [t |-> "bytesLit", b |-> "say \"x\""]>>],
          [t |-> "customValidator",
           call |-> [t |-> "builtin", Name |-> "MinRunes"],
           args |-> <<Num(3), [t |-> "durationLit", d |-> 90]>>],
          Binary(Bound("int", ">=", Num(0)), "&", Bound("float", "<", Float(5))),
          [t |-> "bottom", value |-> NilValue, format |-> ""],
          [t |-> "bottom", value |-> Num(1), format |-> "conflict"],
          [t |-> "string", s |-> "text"]>>]

ListComprehension ==
    [t |-> "listComprehension", clauses |-> Feed(Lambda2, NodeRef("s1"))]

\* lists: closed, of a given length with a cast, open, and of a length
\* that is an expression
ClosedList == List(Num(2), Top, <<Arc(0, Num(1)), Arc(0, Str("b"))>>)
CastList == List(Num(3), Basic("int"), <<Arc(0, Num(1))>>)
EmptyCastList == List(Bound("int", "<=", Num(2)), Basic("int"), <<>>)
OpenList == List(Bound("int", ">=", Num(1)), Basic("string"), <<Arc(0, Str("a"))>>)
ExprList == List(Binary(Num(1), "+", Selector(NodeRef("s1"), 1)), Top, <<>>)

Lists ==
    [t |-> "unification",
     values |-> <<ClosedList, CastList, EmptyCastList, OpenList, ExprList>>]

Values ==
    <<NilValue, Struct1, Lambda2, Expression, Scalars, ListComprehension,
      Feed(Lambda1, Struct1), Feed(Lambda0, Top), Lists>>

(***************************************************************************)
(* The list length helpers and the evaluator, which are not part of        *)
(* debug.go.                                                               *)
(***************************************************************************)
isTop(v) == v.t = "top"

\* maxNum: the upper limit of a list length
maxNum(v) ==
    IF v.t = "bound"
    THEN IF v.op = "<=" THEN v.value ELSE Basic("int")
    ELSE v

\* minNum: the lower limit of a list length
minNum(v) ==
    IF v.t = "bound"
    THEN IF v.op = ">=" THEN v.value ELSE Num(0)
    ELSE v

\* evalPartial: literals and types evaluate to themselves, arithmetic on
\* literals is carried out, anything else is incomplete
evalPartial(v) ==
    IF v.t \in {"numLit", "top", "basicType", "bound"} THEN v
    ELSE IF v.t = "binaryExpr" /\ v.left.t = "numLit" /\ v.right.t = "numLit"
            /\ v.op \in {"+", "-"}
    THEN Num(IF v.op = "+" THEN v.left.v + v.right.v ELSE v.left.v - v.right.v)
    ELSE [t |-> "bottom", value |-> v, format |-> "incomplete"]

\* bottom.msg
msg(x) == x.format

\* builtin.name
builtinName(x) == x.Name

(***************************************************************************)
(* printer.str                                                             *)
(***************************************************************************)
RECURSIVE lambdaName(_, _)
lambdaName(f, v) ==
    IF v.t = "nodeRef" THEN lambdaName(f, Scopes[v.node])
    ELSE IF v.t = "lambdaExpr" /\ f = 0 /\ Len(v.params.arcs) = 1
    THEN v.params.arcs[1].feature
    ELSE f

\* the label of an arc as the arc case writes it: quoted unless quoting
\* adds nothing but the quotes
arcLabel(orig) ==
    IF Len(orig) + 2 = Len(Quote(orig)) THEN Escaped(orig) ELSE Quote(orig)

\* the evaluations of the list case: of the upper limit and, when that is
\* no number, of the lower limit
listEvaluated(P, max) ==
    [P EXCEPT !.evals = @ + (IF max.t = "numLit" THEN 1 ELSE 2)]

\* ln of the list case
listLn(max, min) ==
    IF max.t = "numLit" THEN max.v
    ELSE IF min.t = "numLit" THEN min.v
    ELSE 0

\* the condition "!ok || ln > len(x.elem.arcs)" of the list case
listEllipsis(x, max, min) ==
    max.t # "numLit" \/ listLn(max, min) > Len(x.elem.arcs)

\* the condition under which the list case writes the length and the type
listCast(x, max, min) ==
    /\ listEllipsis(x, max, min)
    /\ max.t \notin {"top", "basicType"}
    /\ ~isTop(x.typ)

RECURSIVE str(_, _), strEach(_, _, _), strJoin(_, _, _, _), strDisjunction(_, _, _)

\* "for i, a := range s { p.str(a); if i < len(s)-1 { write(sep) } }"
strEach(P, s, sep) ==
    IF s = <<>> THEN P
    ELSE strEach(IF Len(s) > 1 THEN write(str(P, s[1]), sep) ELSE str(P, s[1]),
                 Tail(s), sep)

\* "for i, v := range s { if i != 0 { write(sep) }; p.str(v) }"
strJoin(P, s, sep, first) ==
    IF s = <<>> THEN P
    ELSE strJoin(str(IF first THEN P ELSE write(P, sep), s[1]), Tail(s), sep, FALSE)

\* the loop of the disjunction case
strDisjunction(P, s, first) ==
    IF s = <<>> THEN P
    ELSE strDisjunction(
             str(write(IF first THEN P ELSE write(P, " | "),
                       IF s[1].marked THEN "*" ELSE ""),
                 s[1].val),
             Tail(s), FALSE)

\* the loop of the arc case over x.attrs.attr
RECURSIVE strAttrs(_, _)
strAttrs(P, attrs) ==
    IF attrs = <<>> THEN P
    ELSE strAttrs(write(P, " " \o attrs[1].text), Tail(attrs))

\* the arcs of a list element sequence, as the values the list case prints
ArcValues(arcs) == [i \in DOMAIN arcs |-> arcs[i].v]

\* the feed case after its first writef: two parameters are read
strFeed(P, x) ==
    IF P.panic THEN P
    ELSE IF Len(x.fn.params.arcs) < 1 THEN panic(P)
    ELSE IF Len(x.fn.params.arcs) < 2
    THEN panic(write(write(P, label(P, x.fn.params.arcs[1].feature)), ", "))
    ELSE str(str(write(write(write(write(P,
                 label(P, x.fn.params.arcs[1].feature)), ", "),
                 label(P, x.fn.params.arcs[2].feature)), " in "),
                 x.source),
             x.fn.value)

\* the list case after the evaluations
strListElems(P, x, ellipsis, inCast) ==
    write(write(
        IF ellipsis
        THEN IF ~isTop(x.typ)
             THEN str(write(strEach(write(P, "["), ArcValues(x.elem.arcs), ","),
                            ", ..."), x.typ)
             ELSE write(strEach(write(P, "["), ArcValues(x.elem.arcs), ","), ", ...")
        ELSE strEach(write(P, "["), ArcValues(x.elem.arcs), ","),
        "]"),
        IF inCast THEN ")" ELSE "")

strList(P, x, max, min) ==
    IF listCast(x, max, min)
    THEN IF Len(x.elem.arcs) = 0
         THEN write(str(write(str(P, x.len), "*["), x.typ), "]")
         ELSE strListElems(
                  write(write(str(write(str(P, x.len), "*["), x.typ), "]"), "("),
                  x, TRUE, TRUE)
    ELSE strListElems(P, x, listEllipsis(x, max, min), FALSE)

str(P, x) ==
    IF P.panic THEN P
    ELSE CASE x.t = "nil" -> write(P, "*nil*")
      [] x.t = "string" -> write(P, x.s)
      [] x.t = "builtin" -> write(P, builtinName(x))
      [] x.t = "nodeRef" ->
            IF P.showNodeRef THEN writeRef(P, x.node, "", "") ELSE P
      [] x.t = "selectorExpr" ->
            IF x.x.t = "nodeRef" /\ ~P.showNodeRef
            THEN write(P, label(P, lambdaName(x.feature, x.x)))
            ELSE write(str(P, x.x), "." \o label(P, lambdaName(x.feature, x.x)))
      [] x.t = "indexExpr" ->
            write(str(write(str(P, x.x), "["), x.index), "]")
      [] x.t = "sliceExpr" ->
            write(IF x.hi # NilValue
                  THEN str(write(IF x.lo # NilValue
                                 THEN str(write(str(P, x.x), "["), x.lo)
                                 ELSE write(str(P, x.x), "["),
                                 ":"),
                           x.hi)
                  ELSE write(IF x.lo # NilValue
                             THEN str(write(str(P, x.x), "["), x.lo)
                             ELSE write(str(P, x.x), "["),
                             ":"),
                  "]")
      [] x.t = "callExpr" ->
            write(strEach(write(str(P, x.x), " ("), x.args, ","), ")")
      [] x.t = "customValidator" ->
            write(strEach(write(str(P, x.call), " ("), x.args, ","), ")")
      [] x.t = "unaryExpr" -> str(write(P, x.op), x.x)
      [] x.t = "binaryExpr" ->
            write(str(write(str(write(P, "("), x.left), " " \o x.op \o " "),
                      x.right), ")")
      [] x.t = "unification" ->
            write(strJoin(write(P, "("), x.values, " & ", TRUE), ")")
      [] x.t = "disjunction" ->
            write(strDisjunction(write(P, "("), x.values, TRUE), ")")
      [] x.t = "lambdaExpr" ->
            str(write(str(write(IF P.showNodeRef THEN writeRef(P, x.id, "", "")
                                ELSE P,
                                "("),
                          [t |-> "arcs", arcs |-> x.params.arcs]),
                      ")->"),
                x.value)
      [] x.t = "structLit" ->
            IF x.isnil THEN write(P, "*nil node*")
            ELSE write(
                   strEach(
                     str(IF x.template # NilValue
                         THEN write(str(write(write(
                                  IF P.showNodeRef THEN writeRef(P, x.id, "", "")
                                  ELSE P,
                                  "{"), "<>: "), x.template), ", ")
                         ELSE write(IF P.showNodeRef THEN writeRef(P, x.id, "", "")
                                    ELSE P,
                                    "{"),
                         [t |-> "arcs", arcs |-> x.arcs]),
                     x.comprehensions, ", "),
                   "}")
      [] x.t = "arcs" -> strEach(P, x.arcs, ", ")
      [] x.t = "arc" ->
            strAttrs(
                str(write(write(write(P, arcLabel(label(P, x.feature))),
                                IF x.optional THEN "?" ELSE ""),
                          ": "),
                    x.v),
                x.attrs)
      [] x.t = "fieldComprehension" -> str(P, x.clauses)
      [] x.t = "listComprehension" ->
            write(str(write(P, "["), x.clauses), " ]")
      [] x.t = "yield" ->
            str(write(write(str(write(write(P, " yield "), "("), x.key),
                            IF x.opt THEN "?" ELSE ""),
                      "): "),
                x.value)
      [] x.t = "feed" -> strFeed(writeRef(P, x.fn.id, " ", "for "), x)
      [] x.t = "guard" -> str(str(write(P, " if "), x.condition), x.value)
      [] x.t = "nullLit" -> write(P, "null")
      [] x.t = "boolLit" -> write(P, IF x.b THEN "true" ELSE "false")
      [] x.t = "stringLit" -> write(P, Quote(x.str))
      [] x.t = "bytesLit" -> write(P, "'" \o Escaped(x.b) \o "'")
      [] x.t = "numLit" ->
            IF x.k = "int" THEN write(P, Text(x.v, "f")) ELSE write(P, Text(x.v, "g"))
      [] x.t = "durationLit" -> write(P, DurationString(x.d))
      [] x.t = "bound" ->
            str(write(write(P, IF x.k = "int" THEN "int & "
                               ELSE IF x.k = "float" THEN "float & "
                               ELSE ""),
                      x.op),
                x.value)
      [] x.t = "interpolation" -> strJoin(P, x.parts, "+", TRUE)
      [] x.t = "list" ->
            strList(listEvaluated(P, evalPartial(maxNum(x.len))), x,
                    evalPartial(maxNum(x.len)), evalPartial(minNum(x.len)))
      [] x.t = "bottom" ->
            IF x.value # NilValue \/ x.format # ""
            THEN write(write(
                     IF x.value # NilValue /\ P.showNodeRef
                     THEN write(str(write(write(P, "_|_"), "("), x.value), ":")
                     ELSE write(write(P, "_|_"), "("),
                     msg(x)), ")")
            ELSE write(P, "_|_")
      [] x.t = "top" -> write(P, "_")
      [] x.t = "basicType" -> write(P, x.k)
      [] OTHER -> panic(P)

(***************************************************************************)
(* debugStr and context.str, on one of the contexts or on a nil context.   *)
(***************************************************************************)
CtxIds == {1, 2}

debugStr(c, nilctx, v) ==
    str([newPrinter(c, nilctx) EXCEPT !.showNodeRef = TRUE], v)

contextStr(c, nilctx, v) == str(newPrinter(c, nilctx), v)

NoContext == [nodeRefs |-> <<>>]

PrinterInit ==
    /\ ctxs = [c \in CtxIds |-> NoContext]
    /\ outs = [c \in CtxIds |-> [fn |-> "none", v |-> 0, w |-> "", evals |-> 0]]
    /\ printerPanic = FALSE

\* the call fn(v) on context c ended with the printer P
Rendered(c, fn, i, P) ==
    /\ ctxs' = [ctxs EXCEPT ![c] = P.ctx]
    /\ outs' = [outs EXCEPT ![c] = [fn |-> fn, v |-> i,
                                    w |-> IF P.panic THEN "" ELSE P.w,
                                    evals |-> P.evals]]
    /\ printerPanic' = P.panic

CallDebugStr ==
    /\ ~printerPanic
    /\ \E c \in CtxIds, i \in DOMAIN Values :
          Rendered(c, "debugStr", i, debugStr(ctxs[c], FALSE, Values[i]))
    /\ UNCHANGED <<extractorVars, runesVars>>

CallContextStr ==
    /\ ~printerPanic
    /\ \E c \in CtxIds, i \in DOMAIN Values :
          Rendered(c, "str", i, contextStr(ctxs[c], FALSE, Values[i]))
    /\ UNCHANGED <<extractorVars, runesVars>>

\* debugStr(nil, v)
CallDebugStrNil ==
    /\ ~printerPanic
    /\ \E i \in DOMAIN Values :
          printerPanic' = debugStr(NoContext, TRUE, Values[i]).panic
    /\ UNCHANGED <<ctxs, outs, extractorVars, runesVars>>

\* (*context)(nil).str(v)
CallContextStrNil ==
    /\ ~printerPanic
    /\ \E i \in DOMAIN Values :
          printerPanic' = contextStr(NoContext, TRUE, Values[i]).panic
    /\ UNCHANGED <<ctxs, outs, extractorVars, runesVars>>

PrinterNext ==
    CallDebugStr \/ CallContextStr \/ CallDebugStrNil \/ CallContextStrNil

(***************************************************************************)
(* Claims about the printer.                                               *)
(***************************************************************************)
\* C1: rendering a value of any kind performs no evaluation step.
C1_NoEvaluation == \A c \in CtxIds : outs[c].evals = 0

\* C2: render is total: no call of the printer, on any value, with or
\* without a context, panics.
C2_Total == ~printerPanic

\* C3: render is deterministic: the same call on the same value writes the
\* same text on two contexts, whatever was rendered on each before.
C3_Deterministic ==
    \A c1, c2 \in CtxIds :
        (outs[c1].fn # "none" /\ outs[c1].fn = outs[c2].fn
            /\ outs[c1].v = outs[c2].v /\ ~printerPanic)
            => outs[c1].w = outs[c2].w

\* C4: no call of context.str or debugStr changes a field of a context.
C4_ContextUnchanged == [][ctxs' = ctxs]_vars

(***************************************************************************)
(* path/filepath and strings helpers used by the Extractor.                *)
(***************************************************************************)
\* byte order of the elements paths are built from
Alphabet == <<".proto", "/", "_proto_g", "_proto_gen.cue", "a", "b", "e", "g",
              "k", "m", "n", "p", "r", "t", "w", "x", "y", "z">>

Rank(c) == CHOOSE i \in DOMAIN Alphabet : Alphabet[i] = c

\* the Go string comparison s < t
RECURSIVE StrLess(_, _)
StrLess(s, t) ==
    IF t = <<>> THEN FALSE
    ELSE IF s = <<>> THEN TRUE
    ELSE IF s[1] # t[1] THEN Rank(s[1]) < Rank(t[1])
    ELSE StrLess(Tail(s), Tail(t))

\* strings.HasPrefix
HasPrefix(s, prefix) == IsPrefix(prefix, s)

\* the Go slice expression s[k:], for 0 <= k <= len(s)
SliceFrom(s, k) == SubSeq(s, k + 1, Len(s))

\* filepath.IsAbs
IsAbs(p) == Len(p) > 0 /\ p[1] = "/"

\* filepath.Clean, for paths without "." and "..": repeated separators
\* collapse and a trailing separator is dropped
RECURSIVE Clean(_)
Clean(p) ==
    IF Len(p) <= 1 THEN p
    ELSE IF p[Len(p)] = "/" THEN Clean(SubSeq(p, 1, Len(p) - 1))
    ELSE IF p[1] = "/" /\ p[2] = "/" THEN Clean(Tail(p))
    ELSE <<p[1]>> \o Clean(Tail(p))

\* filepath.Join: the non-empty elements, separated, then cleaned
RECURSIVE JoinRaw(_)
JoinRaw(elems) ==
    IF elems = <<>> THEN <<>>
    ELSE IF elems[1] = <<>> THEN JoinRaw(Tail(elems))
    ELSE LET rest == JoinRaw(Tail(elems))
         IN IF rest = <<>> THEN elems[1] ELSE elems[1] \o <<"/">> \o rest

Join(elems) == Clean(JoinRaw(elems))

LastSlash(p) ==
    LET S == {i \in DOMAIN p : p[i] = "/"}
    IN IF S = {} THEN 0 ELSE CHOOSE i \in S : \A j \in S : j <= i

\* filepath.Dir
Dir(p) ==
    LET i == LastSlash(p)
    IN IF i = 0 THEN <<".">>
       ELSE IF i = 1 THEN <<"/">>
       ELSE Clean(SubSeq(p, 1, i - 1))

\* filepath.Base
Base(p) == SubSeq(p, LastSlash(p) + 1, Len(p))

\* base[:len(base)-len(".proto")]: the last six bytes are cut off, whatever
\* they are
CutProtoSuffix(base) ==
    LET last == base[Len(base)]
        front == SubSeq(base, 1, Len(base) - 1)
    IN IF last = ".proto" THEN front
       ELSE IF last = "_proto_gen.cue" THEN front \o <<"_proto_g">>
       ELSE front

\* sort.Slice / sort.Strings by insertion; s holds <<key, item>> pairs
RECURSIVE InsertPair(_, _)
InsertPair(s, x) ==
    IF s = <<>> THEN <<x>>
    ELSE IF StrLess(x[1], s[1][1]) THEN <<x>> \o s
    ELSE <<s[1]>> \o InsertPair(Tail(s), x)

RECURSIVE SortPairs(_)
SortPairs(s) ==
    IF s = <<>> THEN <<>> ELSE InsertPair(SortPairs(Tail(s)), s[1])

SortStrings(s) ==
    LET sorted == SortPairs([i \in DOMAIN s |-> <<s[i], s[i]>>])
    IN [i \in DOMAIN sorted |-> sorted[i][2]]

\* unique.Strings on a sorted slice
RECURSIVE Unique(_)
Unique(s) ==
    IF Len(s) <= 1 THEN s
    ELSE IF s[1] = s[2] THEN Unique(Tail(s))
    ELSE <<s[1]>> \o Unique(Tail(s))

\* the keys of a map as a slice, in some order
RECURSIVE SetToSeq(_)
SetToSeq(S) ==
    IF S = {} THEN <<>>
    ELSE LET x == CHOOSE x \in S : TRUE IN <<x>> \o SetToSeq(S \ {x})

\* the orders in which a range statement may visit the keys of a map
Orders(S) ==
    {o \in [1..Cardinality(S) -> S] : \A i, j \in DOMAIN o : i # j => o[i] # o[j]}

(***************************************************************************)
(* The Extractor (encoding/protobuf).                                      *)
(***************************************************************************)
\* Config.Root, the working directory, and the values Config.Module takes
ConfigRoot == <<"/", "r">>
Getwd == <<"/", "w">>
Modules == {<<>>, <<"m">>, <<"m", "/", "a">>}

\* The proto files AddFile is called with: name relative to Root, whether
\* the file fails to parse, its go_package import path (empty: none), the
\* proto files it imports and the Go packages it uses ("t" is a builtin
\* package, for which no instance exists).
ProtoFiles ==
    [x |-> [name |-> <<"a", "/", "x", ".proto">>, bad |-> FALSE,
            goPkgPath |-> <<"m", "/", "a">>, imports |-> {"y"},
            used |-> {<<"m", "/", "a", "b">>, <<"t">>}],
     y |-> [name |-> <<"a", "b", "/", "y", ".proto">>, bad |-> FALSE,
            goPkgPath |-> <<"m", "/", "a", "b">>, imports |-> {},
            used |-> {}],
     z |-> [name |-> <<"g", "/", "z", ".proto">>, bad |-> FALSE,
            goPkgPath |-> <<"e", "/", "g">>, imports |-> {},
            used |-> {<<"t">>}],
     n |-> [name |-> <<"n", ".proto">>, bad |-> FALSE,
            goPkgPath |-> <<>>, imports |-> {},
            used |-> {}],
     e |-> [name |-> <<"e", ".proto">>, bad |-> TRUE,
            goPkgPath |-> <<>>, imports |-> {},
            used |-> {}]]

ProtoIds == DOMAIN ProtoFiles

\* error values; a nil error is Nil, a nil errors.Error list is <<>>
Nil == [kind |-> "nil", about |-> <<>>]
Err(kind, about) == [kind |-> kind, about |-> about]

NewExtractor(c) ==
    [root |-> IF c.Root = <<>> THEN Getwd ELSE c.Root,
     cwd |-> Getwd,
     module |-> c.Module,
     fileCache |-> <<>>,
     imports |-> <<>>,
     errs |-> <<>>,
     done |-> FALSE]

\* addErr with the result of errors.Append thrown away
addErrLost(errs, err) == errs

\* addErr: b.errs = errors.Append(b.errs, errors.Promote(err, ...)), err non-nil
addErr(errs, err) == Append(errs, err)

\* b.parse: the file and, recursively, the files it imports enter the file
\* cache, each with its converter or its parse error; a cached file is not
\* parsed again
parseResult(id, filename) ==
    [err |-> IF ProtoFiles[id].bad THEN Err("parse", filename) ELSE Nil,
     p |-> [src |-> id,
            file |-> [Filename |-> filename],
            goPkgPath |-> ProtoFiles[id].goPkgPath,
            used |-> ProtoFiles[id].used]]

RECURSIVE parse(_, _, _)
parseFile(cache, root, todo, id, filename) ==
    IF filename \in DOMAIN cache
    THEN parse(cache, root, todo \ {id})
    ELSE parse((filename :> parseResult(id, filename)) @@ cache, root,
               (todo \ {id}) \cup
                   (IF ProtoFiles[id].bad THEN {} ELSE ProtoFiles[id].imports))

parseNext(cache, root, todo, id) ==
    parseFile(cache, root, todo, id, Join(<<root, ProtoFiles[id].name>>))

parse(cache, root, todo) ==
    IF todo = {} THEN cache
    ELSE parseNext(cache, root, todo, CHOOSE i \in todo : TRUE)

\* getInst, from "inst := b.imports[importPath]" on: the Extractor after the
\* call, whether it returned nil, the key of the instance it returned, and
\* whether it panicked
getInstNew(B, p, dir) ==
    [b |-> IF p.goPkgPath \in DOMAIN B.imports THEN B
           ELSE [B EXCEPT !.imports =
                    (p.goPkgPath :>
                        [Root |-> B.root, Dir |-> dir, ImportPath |-> p.goPkgPath,
                         Files |-> <<>>, ImportPaths |-> <<>>, Imports |-> <<>>])
                    @@ @],
     nil |-> FALSE, key |-> p.goPkgPath, panic |-> FALSE]

\* getInst, the check of a module-relative dir against the file's directory
getInstCheck(B, p, dir, want) ==
    getInstNew(IF dir # want
               THEN [B EXCEPT !.errs = Append(@, Err("inconsistent path", want))]
               ELSE B,
               p, dir)

\* want := filepath.Dir(p.file.Filename), made absolute
getInstWant(B, dirname) ==
    IF IsAbs(dirname) THEN dirname ELSE Join(<<B.root, dirname>>)

getInst(B, p) ==
    IF B.errs # <<>>
    THEN [b |-> B, nil |-> TRUE, key |-> <<>>, panic |-> FALSE]
    ELSE IF p.goPkgPath = <<>>
    THEN [b |-> [B EXCEPT !.errs = Append(@, Err("no go_package", p.file.Filename))],
          nil |-> TRUE, key |-> <<>>, panic |-> FALSE]
    ELSE IF ~HasPrefix(p.goPkgPath, B.module)
    THEN getInstNew(B, p, Join(<<B.root, <<"p", "k", "g">>, p.goPkgPath>>))
    ELSE IF Len(B.module) + 1 > Len(p.goPkgPath)
    THEN \* path[len(b.module)+1:]: slice bounds out of range
         [b |-> B, nil |-> TRUE, key |-> <<>>, panic |-> TRUE]
    ELSE getInstCheck(B, p,
             Join(<<B.root, SliceFrom(p.goPkgPath, Len(B.module) + 1)>>),
             getInstWant(B, Dir(p.file.Filename)))

\* the loop of Instances over b.fileCache, from "f.Filename = ..." on, for
\* the file cached under filename, given its new name
InstancesAppend(B, key, filename, name) ==
    [b |-> [B EXCEPT
              !.fileCache[filename].p.file.Filename = name,
              !.imports[key].Files =
                  Append(@, [src |-> B.fileCache[filename].p.src,
                             Filename |-> name]),
              !.imports[key].ImportPaths =
                  @ \o SetToSeq(B.fileCache[filename].p.used)],
     panic |-> FALSE]

\* the loop of Instances over b.fileCache, after "inst := b.getInst(r.p)"
InstancesGot(g, filename) ==
    IF g.panic \/ g.nil THEN [b |-> g.b, panic |-> g.panic]
    ELSE InstancesAppend(g.b, g.key, filename,
             Join(<<g.b.imports[g.key].Dir,
                    CutProtoSuffix(Base(g.b.fileCache[filename].p.file.Filename))
                        \o <<"_proto_gen.cue">>>>))

\* one iteration of the loop of Instances over b.fileCache
InstancesFile(B, filename) ==
    IF B.fileCache[filename].err # Nil
    THEN [b |-> [B EXCEPT !.errs = addErr(@, B.fileCache[filename].err)],
          panic |-> FALSE]
    ELSE InstancesGot(getInst(B, B.fileCache[filename].p), filename)

RECURSIVE InstancesLoop(_, _)
InstancesNext(s, rest) == IF s.panic THEN s ELSE InstancesLoop(s.b, rest)

InstancesLoop(B, order) ==
    IF order = <<>> THEN [b |-> B, panic |-> FALSE]
    ELSE InstancesNext(InstancesFile(B, order[1]), Tail(order))

Present(paths, imports) == SelectSeq(paths, LAMBDA i : i \in DOMAIN imports)

Second(pairs) == [i \in DOMAIN pairs |-> pairs[i][2]]

\* the body of the loop of Instances over b.imports, for one instance
InstancesFinish(imports, inst) ==
    [inst EXCEPT
       !.ImportPaths = Unique(SortStrings(@)),
       !.Imports = @ \o Present(Unique(SortStrings(inst.ImportPaths)), imports),
       !.Files = Second(SortPairs([i \in DOMAIN @ |-> <<@[i].Filename, @[i]>>]))]

\* the end of Instances: the instances sorted by import path, and b.Err()
InstancesReturn(B, keys) ==
    [b |-> B, panic |-> FALSE,
     instances |-> [i \in DOMAIN keys |-> B.imports[keys[i]]],
     err |-> B.errs]

InstancesSorted(l) ==
    IF l.panic
    THEN [b |-> l.b, panic |-> TRUE, instances |-> <<>>, err |-> <<>>]
    ELSE InstancesReturn(
             [l.b EXCEPT !.imports =
                 [k \in DOMAIN @ |-> InstancesFinish(l.b.imports, @[k])]],
             SortStrings(SetToSeq(DOMAIN l.b.imports)))

\* Instances, with the file cache visited in the given order: the Extractor
\* after the call, the instances and the error returned
Instances(B, order) ==
    InstancesSorted(InstancesLoop([B EXCEPT !.done = TRUE], order))

RECURSIVE Flatten(_)
Flatten(instances) ==
    IF instances = <<>> THEN <<>>
    ELSE instances[1].Files \o Flatten(Tail(instances))

FilesReturn(i) ==
    [b |-> i.b, panic |-> i.panic,
     files |-> IF i.panic \/ i.err # <<>> THEN <<>> ELSE Flatten(i.instances),
     err |-> IF i.panic THEN <<>> ELSE i.b.errs]

\* Files: the Extractor after the call, the files and the error returned
Files(B, order) == FilesReturn(Instances([B EXCEPT !.done = TRUE], order))

NoRet == [op |-> "none", panic |-> FALSE, err |-> <<>>, instances |-> <<>>,
          files |-> <<>>]

ExtractorInitWith(m) ==
    /\ b = NewExtractor([Root |-> ConfigRoot, Module |-> m])
    /\ ret = NoRet
    /\ extractorPanic = FALSE
    /\ calls = 0

\* AddFile(filename, src) once Instances or Files was called
AddFileDone ==
    /\ ~extractorPanic
    /\ b.done
    /\ calls < MaxCalls
    /\ \E id \in ProtoIds :
          /\ b' = [b EXCEPT !.errs =
                      Append(@, Err("AddFile after Instances", ProtoFiles[id].name))]
          /\ ret' = [NoRet EXCEPT
                       !.op = "AddFile",
                       !.err = <<Err("AddFile after Instances", ProtoFiles[id].name)>>]
    /\ calls' = calls + 1
    /\ UNCHANGED <<extractorPanic, printerVars, runesVars>>

\* the name AddFile passes on to b.parse
AddFileName(B, filename) ==
    IF B.root # B.cwd /\ ~IsAbs(filename) THEN Join(<<B.root, filename>>)
    ELSE filename

AddFileReturn(cache, filename) ==
    /\ b' = [b EXCEPT !.fileCache = cache]
    /\ ret' = [NoRet EXCEPT
                 !.op = "AddFile",
                 !.err = IF cache[filename].err = Nil THEN <<>>
                         ELSE <<cache[filename].err>>]

\* AddFile(filename, src) before that
AddFile ==
    /\ ~extractorPanic
    /\ ~b.done
    /\ \E id \in ProtoIds :
          AddFileReturn(parse(b.fileCache, b.root, {id}),
                        AddFileName(b, ProtoFiles[id].name))
    /\ UNCHANGED <<extractorPanic, calls, printerVars, runesVars>>

Returned(op, r) ==
    /\ b' = r.b
    /\ extractorPanic' = r.panic
    /\ ret' = [op |-> op, panic |-> r.panic, err |-> r.err,
               instances |-> IF op = "Instances" THEN r.instances ELSE <<>>,
               files |-> IF op = "Files" THEN r.files ELSE <<>>]

CallInstances ==
    /\ ~extractorPanic
    /\ calls < MaxCalls
    /\ \E order \in Orders(DOMAIN b.fileCache) :
          Returned("Instances", Instances(b, order))
    /\ calls' = calls + 1
    /\ UNCHANGED <<printerVars, runesVars>>

CallFiles ==
    /\ ~extractorPanic
    /\ calls < MaxCalls
    /\ \E order \in Orders(DOMAIN b.fileCache) :
          Returned("Files", Files(b, order))
    /\ calls' = calls + 1
    /\ UNCHANGED <<printerVars, runesVars>>

ExtractorNext == AddFile \/ AddFileDone \/ CallInstances \/ CallFiles

(***************************************************************************)
(* Claims about the Extractor and about MinRunes.                          *)
(***************************************************************************)
\* every cached file parsed and names a go_package
AllParsed ==
    \A f \in DOMAIN b.fileCache :
        b.fileCache[f].err = Nil /\ b.fileCache[f].p.goPkgPath # <<>>

\* the proto files in the cache
Cached == {b.fileCache[f].p.src : f \in DOMAIN b.fileCache}

\* the files the last call handed out
ReturnedFiles == IF ret.op = "Files" THEN ret.files ELSE Flatten(ret.instances)

Copies(files, id) == Cardinality({i \in DOMAIN files : files[i].src = id})

NoDuplicate(s) == \A i, j \in DOMAIN s : s[i] = s[j] => i = j

\* C5: when every cached file parsed and has a go_package, a call of
\* Instances or Files (taken here at its most favourable: one that reports
\* no error) hands out every cached proto file exactly once, and no
\* instance lists an imported instance twice.
C5_OneFilePerProto ==
    (ret.op \in {"Instances", "Files"} /\ ~ret.panic /\ ret.err = <<>> /\ AllParsed)
        => /\ \A id \in Cached : Copies(ReturnedFiles, id) = 1
           /\ \A i \in DOMAIN ret.instances : NoDuplicate(ret.instances[i].Imports)

\* some cached file failed to parse or names no go_package
SomeBad == ~AllParsed

C6_Returned ==
    (ret.op \in {"Instances", "Files"} /\ ~ret.panic)
        => /\ ret.err = b.errs
           /\ SomeBad => ret.err # <<>>

\* C6: no call removes an error from Err() (so Err() never turns nil
\* again), Instances and Files return exactly Err(), and they return a
\* non-nil error when a cached file failed to parse or has no go_package.
C6_ErrorsKept == [][IsPrefix(b.errs, b.errs')]_vars /\ []C6_Returned

\* Files returned two errors, one of them that of a file that failed to parse
C6_Witness ==
    /\ ret.op = "Files"
    /\ ~ret.panic
    /\ SomeBad
    /\ Len(ret.err) >= 2
    /\ \E i \in DOMAIN ret.err : ret.err[i].kind = "parse"

\* the import path lies inside the module
InModule(path, module) == path = module \/ HasPrefix(path, module \o <<"/">>)

\* where the documentation of Config and Instances places a package; with no
\* module given, both the whole path under Root and Root/pkg are accepted
DocumentedDir(B, path) ==
    IF B.module = <<>>
    THEN {Join(<<B.root, path>>), Join(<<B.root, <<"p", "k", "g">>, path>>)}
    ELSE IF InModule(path, B.module)
    THEN {Join(<<B.root, SubSeq(path, Len(B.module) + 2, Len(path))>>)}
    ELSE {Join(<<B.root, <<"p", "k", "g">>, path>>)}

\* C7: every instance is placed inside Root, module packages at the import
\* path relative to the module and all others under Root/pkg, for every
\* import path and every Module, and no such case fails.
C7_DirWithinRoot ==
    /\ ~extractorPanic
    /\ \A k \in DOMAIN b.imports :
          /\ HasPrefix(b.imports[k].Dir, b.root)
          /\ b.imports[k].Dir \in DocumentedDir(b, k)

\* C8: MinRunes(s, n) is true exactly when s has at least n runes.
C8_MinRunes ==
    runes.fn = "MinRunes" => (runes.res <=> RuneCount(runes.s) >= runes.n)

\* the Extractor is built with any of the modules; where only the printer or
\* the strings package runs, one Extractor stands by
ExtractorInit == \E m \in Modules : ExtractorInitWith(m)

Init == PrinterInit /\ ExtractorInit /\ RunesInit

InitIdle == PrinterInit /\ ExtractorInitWith(<<"m">>) /\ RunesInit

SpecPrinter == InitIdle /\ [][PrinterNext]_vars

SpecExtractor == Init /\ [][ExtractorNext]_vars

RunesNext == CallMinRunes \/ CallMaxRunes

SpecRunes == InitIdle /\ [][RunesNext]_vars

====
